---- MODULE Spec2Model ----
(***************************************************************************)
(* Stock monitor of abhis699/SheinVerseMenStock.                           *)
(*                                                                         *)
(* The repository holds several variants of one program.  Three of them   *)
(* are modelled as cycle machines:                                         *)
(*   "threshold"  src/monitor.js lines 305-601: parallel scrape, rising    *)
(*                edge BIG STOCK ALERT, chunked sendTelegram, unguarded    *)
(*                setInterval;                                             *)
(*   "single"     src/unnamed/part_000 lines 1-272: isRunning guard,       *)
(*                sequential scrape, try/catch/finally, sendErrorAlert;    *)
(*   "gating"     src/unnamed/part_000 lines 274-488: no retry, cooldown,  *)
(*                notification gated by the MEN_ALL count (SpecGating).    *)
(* scrapeCategory's retry recursion and sendTelegram's chunk loop are also *)
(* modelled step by step, each under a specification of its own, and so    *)
(* are the snapshot store (saves, process stops, the loadSnapshot with and *)
(* without try) and the two pure computations, calculateDiff and the       *)
(* new-links filter of src/unnamed/part_000 lines 434-437.                 *)
(* The process.on handlers of src/unnamed/part_000 lines 10-18 and one     *)
(* monitorStock run of the cron variant, src/unnamed/part_001 lines 1-162, *)
(* have a specification each as well (SpecHandlers, SpecCron).             *)
(***************************************************************************)
EXTENDS Integers, Sequences, FiniteSets, TLC

VARIABLES
    variant,    \* which program runs: "threshold", "single" or "gating"
    file,       \* stock.json: [exists, content]
    cyc,        \* runOnce activations: id -> locals and position
    started,    \* number of timer/startup triggers so far
    isRunning,  \* part_000 line 20
    skipped,    \* history: triggers that returned at part_000 line 203
    bodies,     \* history: activations that went past the isRunning guard
    persisted,  \* history: MEN_FILTERED count handed to the last saveSnapshot
    last,       \* history: summary of the activation that finished last
    feed,       \* the MEN_FILTERED counts the site will show, cycle by cycle
                \* (<<>>: any count of PageCounts)
    track,      \* history: alerts of the run 10,20,35,40,25,32 from cold start
    scr,        \* one scrapeCategory call, step by step
    snd,        \* one sendTelegram call, step by step
    sto,        \* the snapshot store alone: saves, stops and loads
    calc,       \* one call of calculateDiff or of the new-links filter
    written,    \* history: the mapping of the last saveSnapshot that returned
    hnd,        \* the process.on handlers of part_000 lines 10-18
    cron        \* one monitorStock run of part_001 lines 119-147

vars == <<variant, file, cyc, started, isRunning, skipped, bodies,
          persisted, last, feed, track, scr, snd, sto, calc, written, hnd,
          cron>>

unitVars == <<scr, snd, sto, calc, hnd, cron>>

------------------------------------------------------------------------------
(* Configuration                                                           *)

categories == <<"MEN_ALL", "MEN_FILTERED">>

Keys == {categories[i] : i \in 1..Len(categories)}

maxRetries == 2

filteredThreshold == 30

MAX_LEN == 3800

(* Bounds of the model *)
MaxCycles == 3

MaxInFlight == 2

(* totalItems values the page can show for each category *)
PageCounts(key) ==
    IF key = "MEN_FILTERED" THEN {20, filteredThreshold, 50} ELSE {60}

(* The counts of the worked example of the rising-edge rule *)
TargetSeq == <<10, 20, 35, 40, 25, 32>>

MaxId == IF MaxCycles > Len(TargetSeq) THEN MaxCycles ELSE Len(TargetSeq)

Ids == 1..MaxId

------------------------------------------------------------------------------
(* Snapshot store                                                          *)

EmptyObj == [k \in {} |-> 0]

NoFile == [exists |-> FALSE, content |-> <<>>]

(* A stored entry holds totalItems as scraped and by, the activation that
   built the entry (history standing for the entry's time: Date.now()
   stamp); the entries of the store alone also hold links and time.  The
   cycles do not model the links of an entry. *)

(* The text of a file is a sequence of tokens: the opening brace, one token
   per key with the text of its entry, the closing brace.  A number is
   written as its decimal digits, an array of strings element by element. *)
Open == [t |-> "{"]

Close == [t |-> "}"]

(* The decimal digits of a natural number, and the number they denote *)
RECURSIVE ToDigits(_)
ToDigits(n) ==
    IF n < 10 THEN <<n>> ELSE Append(ToDigits(n \div 10), n % 10)

RECURSIVE FromDigits(_)
FromDigits(ds) ==
    IF Len(ds) = 1 THEN ds[1]
    ELSE 10 * FromDigits(SubSeq(ds, 1, Len(ds) - 1)) + ds[Len(ds)]

NumberText(n) ==
    [neg |-> n < 0, digits |-> ToDigits(IF n < 0 THEN 0 - n ELSE n)]

ParseNumber(v) ==
    IF v.neg THEN 0 - FromDigits(v.digits) ELSE FromDigits(v.digits)

(* JSON.stringify that leaves the links of an entry out *)
StringifyEntryNoLinks(e) ==
    [f \in DOMAIN e \ {"links"} |-> NumberText(e[f])]

(* JSON.stringify and JSON.parse of an entry *)
StringifyEntry(e) ==
    [f \in DOMAIN e |-> IF f = "links" THEN e[f] ELSE NumberText(e[f])]

ParseEntry(v) ==
    [f \in DOMAIN v |-> IF f = "links" THEN v[f] ELSE ParseNumber(v[f])]

(* JSON.stringify of a mapping: its entries in insertion order *)
RECURSIVE StringifyFrom(_, _)
StringifyFrom(data, i) ==
    IF i > Len(categories) THEN <<>>
    ELSE LET k == categories[i]
         IN  (IF k \in DOMAIN data
                 THEN <<[t |-> "entry", key |-> k,
                         value |-> StringifyEntry(data[k])]>>
                 ELSE <<>>) \o StringifyFrom(data, i + 1)

JSONstringify(data) == <<Open>> \o StringifyFrom(data, 1) \o <<Close>>

(* Whether JSON.parse accepts the text; it throws a SyntaxError otherwise *)
Parseable(text) ==
    /\ Len(text) >= 2
    /\ text[1].t = Open.t
    /\ text[Len(text)].t = Close.t
    /\ \A i \in 2..(Len(text) - 1) : text[i].t = "entry"

(* JSON.parse of a text it accepts: the object whose keys are the entries'
   keys *)
JSONparse(text) ==
    [k \in {text[i].key : i \in 2..(Len(text) - 1)} |->
        LET i == CHOOSE j \in 2..(Len(text) - 1) : text[j].key = k
        IN  ParseEntry(text[i].value)]

(* loadSnapshot of src/monitor.js and of src/unnamed/part_000 line 93: a
   missing file and a text JSON.parse rejects both give {} *)
loadSnapshot(f) ==
    IF ~f.exists THEN EmptyObj
    ELSE IF Parseable(f.content) THEN JSONparse(f.content)
    ELSE EmptyObj

(* What writeFileSync leaves when it succeeds *)
saveSnapshot(data) == [exists |-> TRUE, content |-> JSONstringify(data)]

(* The file after a write that stopped before its end *)
Torn(text) == [exists |-> TRUE, content |-> text]

(* writeFileSync opens the file truncating it and then writes: when it
   throws, the file is as it was (the open failed) or holds a prefix of the
   text (the write failed).  The cycles take the empty prefix for every
   prefix: loadSnapshot gives {} for each of them. *)
FailedWrites(f) == {f, Torn(<<>>)}

(* The outcomes of saveSnapshot(data) on file f *)
SaveOutcomes(f, data) ==
    {[ok |-> TRUE, file |-> saveSnapshot(data)]}
       \cup {[ok |-> FALSE, file |-> g] : g \in FailedWrites(f)}

------------------------------------------------------------------------------
(* scrapeCategory as a function of what its attempts observe               *)

(* Line 456 left out: only a throwing puppeteer call fails the attempt *)
AttemptFailsOnThrow(out) == out < 0

(* An attempt fails when puppeteer throws (out < 0) or, at line 456, when
   totalItems is 0 *)
AttemptFails(out) == out < 0 \/ out = 0

(* Line 463 with the bound off by one *)
MayRetryOnceMore(retry) == retry <= maxRetries

(* Line 463 *)
MayRetry(retry) == retry < maxRetries

RECURSIVE scrapeFrom(_, _)
scrapeFrom(outs, retry) ==
    IF ~AttemptFails(outs[retry + 1])
    THEN [ok |-> TRUE, totalItems |-> outs[retry + 1], attempts |-> retry + 1]
    ELSE IF MayRetry(retry)
         THEN scrapeFrom(outs, retry + 1)
         ELSE [ok |-> FALSE, totalItems |-> 0, attempts |-> retry + 1]

scrapeCategory(outs) == scrapeFrom(outs, 0)

(* What the attempts of one call observe: -1 the browser threw, 0 the page
   showed no count, otherwise totalItems; the site fails some attempts and
   then shows count *)
AttemptSeqs(counts) ==
    {[n \in 1..(maxRetries + 1) |-> IF n <= j THEN f ELSE c] :
        j \in 0..(maxRetries + 1), f \in {-1, 0}, c \in counts}

ScrapeResults(counts) == {scrapeCategory(outs) : outs \in AttemptSeqs(counts)}

------------------------------------------------------------------------------
(* Diff                                                                    *)

Max(a, b) == IF a >= b THEN a ELSE b

(* The two differences taken the other way round *)
calculateDiffSwapped(oldCount, newCount) ==
    [added |-> Max(0, oldCount - newCount),
     removed |-> Max(0, newCount - oldCount)]

(* Lines 182-187 (and 474-479, src/unnamed/part_000 lines 191-196) *)
calculateDiff(oldCount, newCount) ==
    [added |-> Max(0, newCount - oldCount),
     removed |-> Max(0, oldCount - newCount)]

NoDiff == [added |-> 0, removed |-> 0]

(* The Added / Removed figures of a category's section: lines 505-517 (and
   206-217, src/unnamed/part_000 lines 218-229) *)
reportedDiff(snapshot, key, totalItems) ==
    IF key \in DOMAIN snapshot
    THEN calculateDiff(snapshot[key].totalItems, totalItems)
    ELSE NoDiff

------------------------------------------------------------------------------
(* runOnce activations                                                     *)

Pending == -1
Rejected == -2

IdleCycle ==
    [pc |-> "idle", snapshot |-> EmptyObj, res |-> [k \in Keys |-> Pending],
     newSnapshot |-> EmptyObj, diff |-> [k \in Keys |-> NoDiff],
     ev |-> <<>>, sent |-> <<>>, prev |-> -1, k |-> 0, shown |-> 0,
     saved |-> FALSE]

NoLast ==
    [id |-> 0, pc |-> "none", res |-> [k \in Keys |-> Pending], ev |-> <<>>,
     sent |-> <<>>, saved |-> FALSE]

Active(c) == c.pc # "idle"

InFlight == {i \in Ids : Active(cyc[i])}

(* Whether a category's result is a snapshot *)
Got(v) == v >= 0

(* ev lists, in the order of the code, the sends an activation has started
   ("alert", "summary", "error") and its write of the store ("save"); sent
   lists the sends that have settled, each with its success. *)

(* History kept when an activation ends: which categories it acquired, what
   it sent and whether it wrote the store *)
Summary(i, c, outcome) ==
    [id |-> i, pc |-> outcome,
     res |-> [k \in Keys |-> IF Got(c.res[k]) THEN 1 ELSE c.res[k]],
     ev |-> c.ev, sent |-> c.sent, saved |-> c.saved]

TrackOff == [on |-> FALSE, alerts |-> <<>>]

Alerted(sent) == \E j \in 1..Len(sent) : sent[j] = <<"alert", TRUE>>

TrackNext(c, outcome) ==
    IF ~track.on \/ Len(track.alerts) = Len(TargetSeq) THEN track
    ELSE IF /\ outcome = "done"
            /\ c.res["MEN_FILTERED"] = TargetSeq[Len(track.alerts) + 1]
         THEN [track EXCEPT !.alerts = Append(@, Alerted(c.sent))]
         ELSE TrackOff

(* The activation ends: its promise settles as outcome.  In monitor.js a
   rejected runOnce is an unhandled rejection; the timer is modelled as
   going on afterwards, which only adds behaviours. *)
Finish(i, c, outcome) ==
    /\ cyc' = [cyc EXCEPT ![i] = IdleCycle]
    /\ last' = Summary(i, c, outcome)
    /\ track' = TrackNext(c, outcome)

(* The MEN_FILTERED count on file after the write w of a mapping holding
   count: none (-1) once the file holds a torn text *)
PersistedAfter(w, count) ==
    IF w.ok THEN count ELSE IF w.file = file THEN persisted ELSE -1

(* How a scrapeCategory call can end for its caller: with the totalItems
   it returns, or Rejected when it throws *)
ScrapeEnds(counts) ==
    {IF r.ok THEN r.totalItems ELSE Rejected : r \in ScrapeResults(counts)}

(* The counts the site can show to activation c for a category *)
CountsFor(key, c) ==
    IF key = "MEN_FILTERED" /\ c.shown > 0 THEN {c.shown} ELSE PageCounts(key)

(* Triggers are counted up to MaxCycles.  While the site follows the script
   of the worked example the timer interval is longer than a cycle: a trigger
   fires only when no activation is in flight, up to the end of the script *)
MayTrigger ==
    IF feed # <<>>
    THEN InFlight = {} /\ started < Len(TargetSeq)
    ELSE started < MaxCycles

(* The locals of a fresh activation after loadSnapshot *)
Fresh ==
    [IdleCycle EXCEPT !.pc = "scrape",
                      !.snapshot = loadSnapshot(file),
                      !.prev = persisted,
                      !.k = 1,
                      !.shown = IF feed # <<>> THEN Head(feed) ELSE 0]

StartCycle ==
    /\ cyc' = [cyc EXCEPT ![started + 1] = Fresh]
    /\ feed' = IF feed # <<>> THEN Tail(feed) ELSE feed
    /\ track' = IF InFlight # {} /\ Len(track.alerts) < Len(TargetSeq)
                THEN TrackOff ELSE track

------------------------------------------------------------------------------
(* Variant "threshold": src/monitor.js lines 305-601                       *)

BuildSnapshot(res, id) ==
    [k \in Keys |-> [totalItems |-> res[k], by |-> id]]

filteredTotalOf(res) ==
    IF "MEN_FILTERED" \in Keys THEN res["MEN_FILTERED"] ELSE 0

previousFiltered(snapshot) ==
    IF "MEN_FILTERED" \in DOMAIN snapshot
    THEN snapshot["MEN_FILTERED"].totalItems
    ELSE 0

(* Lines 545-547 without the test of the previous count *)
crossedUpLevel(prevCount, total) == total >= filteredThreshold

(* Lines 545-547 *)
crossedUp(prevCount, total) ==
    prevCount < filteredThreshold /\ total >= filteredThreshold

(* runOnce is called (line 600, or by the timer of line 601): lines 483-499
   run up to the await of Promise.all *)
T_Trigger ==
    /\ variant = "threshold"
    /\ MayTrigger
    /\ Cardinality(InFlight) < MaxInFlight
    /\ started' = started + 1
    /\ StartCycle
    /\ UNCHANGED <<variant, written, file, isRunning, skipped, bodies, persisted, last>>

(* Line 571: saveSnapshot writes the file and the summary's sendTelegram
   starts, or writeFileSync throws and runOnce rejects *)
T_Save(i, c) ==
    \E w \in SaveOutcomes(file, c.newSnapshot) :
       /\ file' = w.file
       /\ persisted' = PersistedAfter(w, filteredTotalOf(c.res))
       /\ IF w.ok
          THEN /\ cyc' = [cyc EXCEPT ![i] =
                            [c EXCEPT !.pc = "summary", !.saved = TRUE,
                                      !.ev = @ \o <<"save", "summary">>]]
               /\ UNCHANGED <<last, track>>
          ELSE Finish(i, c, "rejected")

(* Lines 501-571 once every scrape has resolved: the forEach, the edge test,
   then either the alert's sendTelegram starts or the snapshot is saved and
   the summary's sendTelegram starts *)
T_AfterScrape(i, c) ==
    LET new == BuildSnapshot(c.res, i)
        c2  == [c EXCEPT !.newSnapshot = new,
                         !.diff = [k \in Keys |->
                                     reportedDiff(c.snapshot, k, c.res[k])]]
    IN  IF crossedUp(previousFiltered(c.snapshot), filteredTotalOf(c.res))
        THEN /\ cyc' = [cyc EXCEPT ![i] =
                          [c2 EXCEPT !.pc = "alert",
                                     !.ev = Append(@, "alert")]]
             /\ UNCHANGED <<file, persisted, last, track>>
        ELSE T_Save(i, c2)

(* One of the two scrapeCategory promises of line 498 settles *)
T_ScrapeSettled(i, key) ==
    /\ variant = "threshold"
    /\ cyc[i].pc = "scrape"
    /\ cyc[i].res[key] = Pending
    /\ \E r \in ScrapeEnds(CountsFor(key, cyc[i])) :
       LET c == [cyc[i] EXCEPT !.res[key] = r]
       IN  IF r = Rejected
           THEN /\ Finish(i, c, "rejected")
                /\ UNCHANGED <<file, persisted>>
           ELSE IF \E k \in Keys : c.res[k] = Pending
                THEN /\ cyc' = [cyc EXCEPT ![i] = c]
                     /\ UNCHANGED <<file, persisted, last, track>>
                ELSE T_AfterScrape(i, c)
    /\ UNCHANGED <<variant, written, started, isRunning, skipped, bodies, feed>>

(* Line 568 inside a try that swallows the rejection *)
alertAwaitedSwallowing(ok) == TRUE

(* Line 568: await sendTelegram(alertMessage) lets runOnce go on only when
   the send resolved; a rejection is thrown out of runOnce *)
alertAwaited(ok) == ok

(* The sendTelegram of line 568 settles; on success lines 571-595 run *)
T_AlertSettled(i, ok) ==
    /\ variant = "threshold"
    /\ cyc[i].pc = "alert"
    /\ LET c == [cyc[i] EXCEPT !.sent = Append(@, <<"alert", ok>>)]
       IN  IF alertAwaited(ok)
           THEN T_Save(i, c)
           ELSE /\ Finish(i, c, "rejected")
                /\ UNCHANGED <<file, persisted>>
    /\ UNCHANGED <<variant, written, started, isRunning, skipped, bodies, feed>>

(* The sendTelegram of line 595 settles *)
T_SummarySettled(i, ok) ==
    /\ variant = "threshold"
    /\ cyc[i].pc = "summary"
    /\ LET c == [cyc[i] EXCEPT !.sent = Append(@, <<"summary", ok>>)]
       IN  Finish(i, c, IF ok THEN "done" ELSE "rejected")
    /\ UNCHANGED <<variant, written, file, started, isRunning, skipped, bodies,
                   persisted, feed>>

------------------------------------------------------------------------------
(* Variant "single": src/unnamed/part_000 lines 1-272                      *)

(* Lines 75-89 without the try: a failed send is thrown on *)
sendErrorAlertRethrows(ok) == IF ok THEN "returned" ELSE "threw"

(* sendErrorAlert, lines 75-89: how the call ends when its sendTelegram
   succeeded (ok) or failed; the catch of line 86 only logs *)
sendErrorAlert(ok) == "returned"

(* Line 201 without the test *)
GuardNever == FALSE

(* Line 201 *)
GuardBlocks == isRunning

(* saveSnapshot moved into the loop body *)
LoopDoneEarly(k) == TRUE

(* The for loop of line 215 has no category left *)
LoopDone(k) == k >= Len(categories)

(* No finally block: isRunning keeps its value *)
finallyBlockMissing(running) == running

(* Lines 261-263: finally { isRunning = false } *)
finallyBlock(running) == FALSE

(* runOnce is called (line 269, or by the timer of line 272): either it
   returns at line 203, or lines 206-216 run up to the first await *)
S_Trigger ==
    /\ variant = "single"
    /\ MayTrigger
    /\ started' = started + 1
    /\ IF GuardBlocks
       THEN /\ skipped' = skipped + 1
            /\ UNCHANGED <<cyc, isRunning, bodies, feed, track>>
       ELSE /\ Cardinality(InFlight) < MaxInFlight
            /\ isRunning' = TRUE
            /\ bodies' = bodies + 1
            /\ StartCycle
            /\ UNCHANGED skipped
    /\ UNCHANGED <<variant, written, file, persisted, last>>

(* Line 245: saveSnapshot writes the file and line 257 starts the summary's
   sendTelegram, or writeFileSync throws and the catch of line 258 starts
   the error alert *)
S_Save(i, c) ==
    \E w \in SaveOutcomes(file, c.newSnapshot) :
       /\ file' = w.file
       /\ written' = IF w.ok THEN c.newSnapshot ELSE written
       /\ persisted' =
             PersistedAfter(w, IF "MEN_FILTERED" \in DOMAIN c.newSnapshot
                               THEN c.newSnapshot["MEN_FILTERED"].totalItems
                               ELSE persisted)
       /\ cyc' = [cyc EXCEPT ![i] =
                    IF w.ok
                    THEN [c EXCEPT !.pc = "summary", !.saved = TRUE,
                                   !.ev = @ \o <<"save", "summary">>]
                    ELSE [c EXCEPT !.pc = "catchAlert",
                                   !.ev = Append(@, "error")]]

(* The scrapeCategory of line 216 returns: lines 217-243, then the next
   category, or after the last one lines 245-257 up to the await *)
S_ScrapeReturned(i) ==
    /\ variant = "single"
    /\ cyc[i].pc = "scrape"
    /\ \E r \in ScrapeEnds(CountsFor(categories[cyc[i].k], cyc[i])) :
         /\ Got(r)
         /\ LET key == categories[cyc[i].k]
                c   == [cyc[i] EXCEPT
                          !.res[key] = r,
                          !.diff[key] = reportedDiff(cyc[i].snapshot, key, r),
                          !.newSnapshot =
                             [k \in (DOMAIN @) \cup {key} |->
                                IF k = key
                                THEN [totalItems |-> r, by |-> i]
                                ELSE @[k]]]
            IN  IF LoopDone(c.k)
                THEN S_Save(i, c)
                ELSE /\ cyc' = [cyc EXCEPT ![i] = [c EXCEPT !.k = @ + 1]]
                     /\ UNCHANGED <<file, persisted, written>>
    /\ UNCHANGED <<variant, started, isRunning, skipped, bodies, last, feed,
                   track>>

(* The failed category left out and the loop carried on *)
OnExhaustedSkipped(c) ==
    [c EXCEPT !.res[categories[c.k]] = Rejected,
              !.pc = IF LoopDone(c.k) THEN "summary" ELSE "scrape",
              !.k = IF LoopDone(c.k) THEN c.k ELSE c.k + 1]

(* Lines 176-185: no retry is left, sendErrorAlert is called and the error
   will be thrown to the catch of line 258 *)
OnExhausted(c) ==
    [c EXCEPT !.res[categories[c.k]] = Rejected, !.pc = "scrapeAlert",
              !.ev = Append(@, "error")]

(* The last attempt of scrapeCategory failed: line 184 starts the error
   alert before the error is thrown *)
S_ScrapeExhausted(i) ==
    /\ variant = "single"
    /\ cyc[i].pc = "scrape"
    /\ Rejected \in ScrapeEnds(CountsFor(categories[cyc[i].k], cyc[i]))
    /\ cyc' = [cyc EXCEPT ![i] = OnExhausted(@)]
    /\ UNCHANGED <<variant, written, file, started, isRunning, skipped, bodies,
                   persisted, last, feed, track>>

(* sendErrorAlert of line 184 returns (a failed send is swallowed at line
   86); line 185 throws, the catch of line 258 starts its own error alert *)
S_ScrapeAlertSettled(i, ok) ==
    /\ variant = "single"
    /\ cyc[i].pc = "scrapeAlert"
    /\ cyc' = [cyc EXCEPT ![i] = [@ EXCEPT !.sent = Append(@, <<"error", ok>>),
                                           !.ev = Append(@, "error"),
                                           !.pc = "catchAlert"]]
    /\ UNCHANGED <<variant, written, file, started, isRunning, skipped, bodies,
                   persisted, last, feed, track>>

(* The sendTelegram of line 257 settles: on success the finally block ends
   the activation, on failure the catch of line 258 starts the error alert *)
S_SummarySettled(i, ok) ==
    /\ variant = "single"
    /\ cyc[i].pc = "summary"
    /\ LET c == [cyc[i] EXCEPT !.sent = Append(@, <<"summary", ok>>)]
       IN  IF ok
           THEN /\ Finish(i, c, "done")
                /\ isRunning' = finallyBlock(isRunning)
           ELSE /\ cyc' = [cyc EXCEPT ![i] =
                             [c EXCEPT !.pc = "catchAlert",
                                       !.ev = Append(@, "error")]]
                /\ UNCHANGED <<isRunning, last, track>>
    /\ UNCHANGED <<variant, written, file, started, skipped, bodies, persisted, feed>>

(* The sendTelegram of sendErrorAlert settles (line 260); then the finally
   block of line 261 *)
S_CatchAlertSettled(i, ok) ==
    /\ variant = "single"
    /\ cyc[i].pc = "catchAlert"
    /\ LET c == [cyc[i] EXCEPT !.sent = Append(@, <<"error", ok>>)]
       IN  Finish(i, c, IF sendErrorAlert(ok) = "returned" THEN "caught"
                        ELSE "rejected")
    /\ isRunning' = finallyBlock(isRunning)
    /\ UNCHANGED <<variant, written, file, started, skipped, bodies, persisted, feed>>

------------------------------------------------------------------------------
(* One scrapeCategory call, step by step: src/monitor.js lines 408-470     *)
(* (and lines 115-178, src/unnamed/part_000 lines 108-187)                 *)

(* What one attempt can observe: -3 waitForSelector timed out, -2 goto
   timed out, -1 the browser did not launch, 0 the page showed no count,
   otherwise the totalItems read from the page *)
StepOutcomes == {-3, -2, -1, 0, 20, filteredThreshold, 50}

ScrIdle == [pc |-> "off", retry |-> 0, outs |-> <<>>, ev |-> <<>>,
            result |-> 0, thrown |-> [attempt |-> 0, kind |-> 0]]

(* scrapeCategory(category) is called: retry = 0 *)
ScrCalled == [ScrIdle EXCEPT !.pc = "attempt"]

(* Lines 411-458: one attempt runs and observes out.  It returns the data,
   or lines 459-468 catch the error and either start the retryDelay timer
   or rethrow *)
Scr_Attempt(out) ==
    /\ scr.pc = "attempt"
    /\ LET s == [scr EXCEPT !.outs = Append(@, out),
                            !.ev = Append(@, "attempt")]
       IN  scr' = IF ~AttemptFails(out)
                  THEN [s EXCEPT !.pc = "returned", !.result = out]
                  ELSE IF MayRetry(s.retry)
                       THEN [s EXCEPT !.pc = "wait"]
                       ELSE [s EXCEPT !.pc = "threw",
                                      !.thrown = [attempt |-> s.retry + 1,
                                                  kind |-> out]]

(* Lines 464-465: the retryDelay timer fires and scrapeCategory calls itself
   with retry + 1; what that call returns or throws is what this one does *)
Scr_DelayElapsed ==
    /\ scr.pc = "wait"
    /\ scr' = [scr EXCEPT !.pc = "attempt", !.retry = @ + 1,
                          !.ev = Append(@, "wait")]

(* Lines 503-521 and 571 for the category of the call (lines 205-223 and 278,
   src/unnamed/part_000 lines 217-235 and 245): runOnce puts the returned
   totalItems into newSnapshot and saveSnapshot writes it *)
Scr_Stored ==
    /\ scr.pc = "returned"
    /\ scr' = [scr EXCEPT !.pc = "stored"]
    /\ file' = saveSnapshot([k \in {categories[1]} |->
                                [totalItems |-> scr.result, by |-> 1]])

------------------------------------------------------------------------------
(* One sendTelegram call, step by step: src/monitor.js lines 356-376       *)
(* (src/unnamed/part_000 lines 323-337 slices inside the send loop)        *)

MaxChunks == 3

Min(a, b) == IF a <= b THEN a ELSE b

(* String.prototype.slice(b, e) for 0 <= b <= e *)
slice(text, b, e) == SubSeq(text, b + 1, Min(e, Len(text)))

(* Lines 360-363 with the loop test i <= text.length *)
RECURSIVE ChunksFromInclusive(_, _)
ChunksFromInclusive(text, i) ==
    IF i <= Len(text)
    THEN <<slice(text, i, i + MAX_LEN)>>
            \o ChunksFromInclusive(text, i + MAX_LEN)
    ELSE <<>>

(* Lines 360-363 *)
RECURSIVE ChunksFrom(_, _)
ChunksFrom(text, i) ==
    IF i < Len(text)
    THEN <<slice(text, i, i + MAX_LEN)>> \o ChunksFrom(text, i + MAX_LEN)
    ELSE <<>>

Chunks(text) == ChunksFrom(text, 0)

(* Message lengths around the chunk boundaries, 9000 among them *)
TextLens ==
    {0} \cup {k * MAX_LEN + d : k \in 0..(MaxChunks - 1),
                                d \in {1, 1400, MAX_LEN - 1, MAX_LEN}}

(* Messages: one whose characters are all different, one that repeats a
   short pattern *)
TextKinds == {"distinct", "periodic"}

TextOf(len, kind) ==
    [n \in 1..len |-> IF kind = "distinct" THEN n ELSE n % 7]

SndIdle == [pc |-> "off", text |-> <<>>, chunks |-> <<>>, i |-> 0,
            inflight |-> {}, posted |-> <<>>, ev |-> <<>>, failedAt |-> 0]

(* Line 366: the post of chunk i starts *)
StartPost(s, i) ==
    [s EXCEPT !.pc = "posting", !.i = i, !.inflight = @ \cup {i},
              !.ev = Append(@, <<"post", i>>)]

(* The for-of loop of line 365 moves on: the next chunk's post starts, or
   line 375 is reached *)
LoopNext(s) ==
    IF s.i < Len(s.chunks) THEN StartPost(s, s.i + 1)
    ELSE [s EXCEPT !.pc = "done"]

(* Line 372 left out: the loop goes straight on *)
AfterPostNoPace(s) == LoopNext(s)

(* Line 372: after a post that succeeded the 400 ms timer is awaited *)
AfterPost(s) == [s EXCEPT !.pc = "pacing"]

(* The failure caught inside the loop, which then carries on *)
OnPostFailureSwallowed(s) == AfterPost(s)

(* A post that fails rejects the await of line 366: sendTelegram throws *)
OnPostFailure(s) == [s EXCEPT !.pc = "threw", !.failedAt = s.i]

(* sendTelegram(text) is called: lines 357-366 up to the first await *)
SndCalled(text) ==
    LET s == [SndIdle EXCEPT !.text = text, !.chunks = Chunks(text)]
    IN  LoopNext(s)

(* The axios.post of line 366 settles *)
Snd_PostSettled(ok) ==
    /\ snd.pc = "posting"
    /\ LET s == [snd EXCEPT !.inflight = @ \ {snd.i},
                            !.ev = Append(@, <<IF ok THEN "ok" ELSE "fail",
                                               snd.i>>),
                            !.posted = IF ok THEN Append(@, snd.chunks[snd.i])
                                       ELSE @]
       IN  snd' = IF ok THEN AfterPost(s) ELSE OnPostFailure(s)

(* The timer of line 372 fires *)
Snd_PaceElapsed ==
    /\ snd.pc = "pacing"
    /\ snd' = LoopNext([snd EXCEPT !.ev = Append(@, <<"pace", snd.i>>)])

------------------------------------------------------------------------------
(* The snapshot store alone: src/monitor.js lines 51-62 (and 380-391,      *)
(* src/unnamed/part_000 lines 93-104 and 341-348)                          *)

MaxSaves == 2

(* Entries of a well-formed state mapping: totalItems, links, time *)
StoreEntries ==
    {[totalItems |-> 0, links |-> <<>>, time |-> 7],
     [totalItems |-> 9, links |-> <<"/p/1">>, time |-> 10],
     [totalItems |-> 10, links |-> <<"/p/2", "/p/1">>, time |-> 1001],
     [totalItems |-> 120, links |-> <<"/p/1", "/p/1">>, time |-> 99]}

(* The well-formed state mappings over the category keys, {} among them *)
StoreStates ==
    UNION {[ks -> StoreEntries] : ks \in SUBSET Keys}

(* loadSnapshot of src/unnamed/part_000 lines 341-344: no try around
   JSON.parse *)
loadSnapshotUnguarded(f) ==
    IF ~f.exists THEN [raised |-> FALSE, value |-> EmptyObj]
    ELSE IF Parseable(f.content)
         THEN [raised |-> FALSE, value |-> JSONparse(f.content)]
         ELSE [raised |-> TRUE, value |-> EmptyObj]

LoadVariants == {"guarded", "unguarded"}

(* A call of the loadSnapshot of variant how *)
LoadResult(how, f) ==
    IF how = "guarded" THEN [raised |-> FALSE, value |-> loadSnapshot(f)]
    ELSE loadSnapshotUnguarded(f)

(* x: the mapping of the last saveSnapshot call; good: the mapping of the
   last call that returned; stopped: the process stopped during the last
   call *)
StoIdle ==
    [pc |-> "idle", x |-> EmptyObj, text |-> <<>>, n |-> 0, good |-> EmptyObj,
     saves |-> 0, stopped |-> FALSE, how |-> "none", loaded |-> EmptyObj,
     raised |-> FALSE]

(* saveSnapshot(x) is called: writeFileSync opens stock.json, which
   truncates it *)
Store_Save(x) ==
    /\ sto.pc \in {"idle", "loaded"}
    /\ sto.saves < MaxSaves
    /\ sto' = [sto EXCEPT !.pc = "writing", !.x = x,
                          !.text = JSONstringify(x), !.n = 0,
                          !.saves = @ + 1, !.stopped = FALSE,
                          !.how = "none", !.loaded = EmptyObj,
                          !.raised = FALSE]
    /\ file' = Torn(<<>>)

(* writeFileSync writes on; after the last token saveSnapshot returns *)
Store_Write ==
    /\ sto.pc = "writing"
    /\ LET n == sto.n + 1
       IN  /\ file' = Torn(SubSeq(sto.text, 1, n))
           /\ sto' = IF n = Len(sto.text)
                     THEN [sto EXCEPT !.pc = "idle", !.n = n, !.good = sto.x]
                     ELSE [sto EXCEPT !.n = n]

(* The process stops during saveSnapshot and is started again *)
Store_Stop ==
    /\ sto.pc = "writing"
    /\ sto' = [sto EXCEPT !.pc = "idle", !.stopped = TRUE]
    /\ file' = file

(* loadSnapshot() is called *)
Store_Load(how) ==
    /\ sto.pc = "idle"
    /\ LET r == LoadResult(how, file)
       IN  sto' = [sto EXCEPT !.pc = "loaded", !.how = how,
                              !.loaded = r.value, !.raised = r.raised]
    /\ file' = file

------------------------------------------------------------------------------
(* calculateDiff and the new-links filter alone: src/monitor.js lines      *)
(* 182-187, src/unnamed/part_000 lines 434-437                             *)

MaxCount == 12

MaxLinks == 3

LinkNames == {"/p/1", "/p/2", "/p/3"}

LinkSeqs == UNION {[1..n -> LinkNames] : n \in 0..MaxLinks}

(* Array.prototype.includes, looking at the first element only *)
includesFirst(arr, l) == arr # <<>> /\ arr[1] = l

(* Array.prototype.includes *)
includes(arr, l) == \E j \in 1..Len(arr) : arr[j] = l

(* current.links.filter((l) => !previous.links.includes(l)) *)
RECURSIVE newlyAddedFilteredLinks(_, _)
newlyAddedFilteredLinks(current, previous) ==
    IF current = <<>> THEN <<>>
    ELSE (IF includes(previous, Head(current)) THEN <<>>
          ELSE <<Head(current)>>)
            \o newlyAddedFilteredLinks(Tail(current), previous)

CalcIdle ==
    [pc |-> "idle", done |-> FALSE, oldCount |-> 0, newCount |-> 0,
     diff |-> NoDiff, current |-> <<>>, previous |-> <<>>, out |-> <<>>]

(* The calls that are made *)
CalcCalls ==
    {[CalcIdle EXCEPT !.pc = "diff", !.oldCount = a, !.newCount = b] :
        a \in 0..MaxCount, b \in 0..MaxCount}
    \cup
    {[CalcIdle EXCEPT !.pc = "links", !.current = c, !.previous = q] :
        c \in LinkSeqs, q \in LinkSeqs}

(* calculateDiff(oldCount, newCount) returns *)
Calc_Diff ==
    /\ calc.pc = "diff"
    /\ ~calc.done
    /\ calc' = [calc EXCEPT !.done = TRUE,
                            !.diff = calculateDiff(calc.oldCount,
                                                   calc.newCount)]

(* Lines 434-437: newlyAddedFilteredLinks is assigned *)
Calc_Filter ==
    /\ calc.pc = "links"
    /\ ~calc.done
    /\ calc' = [calc EXCEPT !.done = TRUE,
                            !.out = newlyAddedFilteredLinks(calc.current,
                                                            calc.previous)]

------------------------------------------------------------------------------
(* Variant "gating": src/unnamed/part_000 lines 274-488                    *)

(* CONFIG.notifyThreshold, line 315 *)
notifyThreshold == 50

(* The counts the site can show to the gating variant: a page without a
   count text gives 0 (line 377) *)
GatingCounts(key) ==
    IF key = "MEN_ALL" THEN {0, 40, notifyThreshold, 60} ELSE {20}

(* How the scrapeCategory of lines 351-385 can end: one attempt, no retry
   and no test of the count; a timeout of goto or waitForSelector throws *)
GatedScrapeEnds(key) == GatingCounts(key) \cup {Rejected}

(* Line 450 with a strict comparison *)
shouldNotifyAbove(menAllTotal) == menAllTotal > notifyThreshold

(* Line 450 *)
shouldNotify(menAllTotal) == menAllTotal >= notifyThreshold

(* Lines 414-417: a category missing from the snapshot counts as 0 *)
gatedDiff(snapshot, key, totalItems) ==
    calculateDiff(IF key \in DOMAIN snapshot
                  THEN snapshot[key].totalItems ELSE 0,
                  totalItems)

(* The for loop of line 410 has no category left *)
G_LoopDone(k) == k >= Len(categories)

(* runOnce is called (line 487, or by the timer of line 488, which has no
   guard): loadSnapshot runs, and when JSON.parse throws runOnce rejects at
   once; otherwise the first scrapeCategory is awaited *)
G_Trigger ==
    /\ variant = "gating"
    /\ started < MaxCycles
    /\ Cardinality(InFlight) < MaxInFlight
    /\ started' = started + 1
    /\ LET l == loadSnapshotUnguarded(file)
       IN  IF l.raised
           THEN Finish(started + 1, IdleCycle, "rejected")
           ELSE /\ cyc' = [cyc EXCEPT ![started + 1] =
                             [IdleCycle EXCEPT !.pc = "scrape",
                                               !.snapshot = l.value,
                                               !.k = 1]]
                /\ UNCHANGED <<last, track>>
    /\ UNCHANGED <<variant, written, file, isRunning, skipped, bodies,
                   persisted, feed>>

(* Line 482: saveSnapshot writes the file and runOnce returns, or
   writeFileSync throws and runOnce rejects *)
G_Save(i, c) ==
    \E w \in SaveOutcomes(file, c.newSnapshot) :
       /\ file' = w.file
       /\ persisted' = PersistedAfter(w, filteredTotalOf(c.res))
       /\ Finish(i, [c EXCEPT !.saved = w.ok,
                              !.ev = IF w.ok THEN Append(@, "save") ELSE @],
                 IF w.ok THEN "done" ELSE "rejected")

(* The scrapeCategory of line 411 settles: lines 414-445 run up to the
   cooldown of line 446, or runOnce rejects *)
G_ScrapeSettled(i) ==
    /\ variant = "gating"
    /\ cyc[i].pc = "scrape"
    /\ \E r \in GatedScrapeEnds(categories[cyc[i].k]) :
         LET key == categories[cyc[i].k]
         IN  IF r = Rejected
             THEN Finish(i, [cyc[i] EXCEPT !.res[key] = r], "rejected")
             ELSE /\ cyc' = [cyc EXCEPT ![i] =
                               [cyc[i] EXCEPT
                                  !.res[key] = r,
                                  !.diff[key] =
                                     gatedDiff(cyc[i].snapshot, key, r),
                                  !.newSnapshot =
                                     [k \in (DOMAIN @) \cup {key} |->
                                        IF k = key
                                        THEN [totalItems |-> r, by |-> i]
                                        ELSE @[k]],
                                  !.pc = "cooldown"]]
                  /\ UNCHANGED <<last, track>>
    /\ UNCHANGED <<variant, written, file, started, isRunning, skipped,
                   bodies, persisted, feed>>

(* The cooldown of line 446 is over: the next category is scraped, or after
   the last one lines 450-482 run: the gate, then either the notification's
   sendTelegram starts or the snapshot is saved *)
G_CooldownElapsed(i) ==
    /\ variant = "gating"
    /\ cyc[i].pc = "cooldown"
    /\ IF ~G_LoopDone(cyc[i].k)
       THEN /\ cyc' = [cyc EXCEPT ![i] =
                         [cyc[i] EXCEPT !.pc = "scrape", !.k = @ + 1]]
            /\ UNCHANGED <<file, persisted, last, track>>
       ELSE IF shouldNotify(cyc[i].res["MEN_ALL"])
            THEN /\ cyc' = [cyc EXCEPT ![i] =
                              [cyc[i] EXCEPT !.pc = "notify",
                                             !.ev = Append(@, "notify")]]
                 /\ UNCHANGED <<file, persisted, last, track>>
            ELSE G_Save(i, cyc[i])
    /\ UNCHANGED <<variant, written, started, isRunning, skipped, bodies,
                   feed>>

(* The sendTelegram of line 477 settles: on success line 482 saves the
   snapshot, on failure runOnce rejects before it *)
G_NotifySettled(i, ok) ==
    /\ variant = "gating"
    /\ cyc[i].pc = "notify"
    /\ LET c == [cyc[i] EXCEPT !.sent = Append(@, <<"notify", ok>>)]
       IN  IF ok
           THEN G_Save(i, c)
           ELSE /\ Finish(i, c, "rejected")
                /\ UNCHANGED <<file, persisted>>
    /\ UNCHANGED <<variant, written, started, isRunning, skipped, bodies,
                   feed>>

------------------------------------------------------------------------------
(* The process.on handlers: src/unnamed/part_000 lines 10-18               *)

MaxEvents == 3

(* What reaches a handler: an Error with or without a message, a string
   reason, or undefined (Promise.reject()) *)
Errs ==
    {[type |-> "Error", message |-> "boom"],
     [type |-> "Error", message |-> ""],
     [type |-> "string", message |-> "reason"],
     [type |-> "undefined", message |-> ""]}

(* Line 80: error?.message || error, as the template literal prints it *)
alertBody(error) ==
    IF error.type = "Error"
    THEN IF error.message # "" THEN error.message ELSE "Error"
    ELSE IF error.type = "string" THEN error.message ELSE "undefined"

Handlers == {"unhandledRejection", "uncaughtException"}

(* events: handler activations so far; raised: rejections of a handler's own
   promise, each of which is a new unhandledRejection; log: the alerts whose
   send has settled *)
HndIdle ==
    [pc |-> "idle", on |-> "", body |-> "", events |-> 0, raised |-> 0,
     log |-> <<>>]

(* An unhandled rejection or uncaught exception reaches its handler: lines
   11-12 (15-16) run up to the axios.post awaited inside sendErrorAlert *)
Hnd_Event(h, error) ==
    /\ hnd.pc = "idle"
    /\ hnd.events < MaxEvents
    /\ hnd' = [hnd EXCEPT !.pc = "sending", !.on = h,
                          !.body = alertBody(error), !.events = @ + 1]

(* The axios.post settles.  sendErrorAlert returns and the handler's promise
   resolves; were sendErrorAlert to throw, the handler's promise would
   reject, which is an unhandledRejection that calls the first handler
   again with the send's error *)
Hnd_SendSettled(ok) ==
    /\ hnd.pc = "sending"
    /\ LET h == [hnd EXCEPT !.log = Append(@, [on |-> hnd.on,
                                                body |-> hnd.body,
                                                ok |-> ok])]
       IN  IF sendErrorAlert(ok) = "returned"
           THEN hnd' = [h EXCEPT !.pc = "idle"]
           ELSE /\ hnd.raised < MaxEvents
                /\ hnd' = [h EXCEPT !.on = "unhandledRejection",
                                    !.body = "send failed",
                                    !.raised = @ + 1]

------------------------------------------------------------------------------
(* The cron variant: src/unnamed/part_001 lines 1-162                      *)

MaxRuns == 2

(* What one attempt of scrapeStockCount can observe: -2 goto timed out, -1
   the browser did not launch, 0 no product link on the page, otherwise the
   number of product ids *)
CronOutcomes == {-2, -1, 0, 7}

(* Lines 96-98 and the catch of line 102: the attempt throws *)
countFails(out) == out < 0 \/ out = 0

(* Line 107; CONFIG.maxRetries is 2 at line 17 as in src/monitor.js *)
retryLeft(retryCount) == retryCount < maxRetries

(* Lines 187-200 of the second cron variant: the catch rethrows *)
sendTelegramNotificationRethrows(ok) == IF ok THEN "returned" ELSE "threw"

(* Lines 23-35: the catch logs the error of axios.post and returns *)
sendTelegramNotification(ok) == "returned"

(* runs: monitorStock calls so far; notes: the notifications whose send has
   settled, with the run they belong to; threw: monitorStock rejected *)
CronIdle ==
    [pc |-> "idle", retryCount |-> 0, outs |-> <<>>, kind |-> "", runs |-> 0,
     notes |-> <<>>, threw |-> FALSE]

(* monitorStock is called by main (line 154) or by the schedule of line 159:
   scrapeStockCount() starts with retryCount = 0 *)
Cron_Fire ==
    /\ cron.pc = "idle"
    /\ cron.runs < MaxRuns
    /\ cron' = [cron EXCEPT !.pc = "attempt", !.retryCount = 0,
                            !.outs = <<>>, !.kind = "", !.runs = @ + 1]

(* Lines 42-113: one attempt observes out.  The count is returned and line
   136 starts the stock message; or the catch starts the retryDelay timer;
   or it rethrows and the catch of monitorStock (line 139) starts the error
   message *)
Cron_Attempt(out) ==
    /\ cron.pc = "attempt"
    /\ LET c == [cron EXCEPT !.outs = Append(@, out)]
       IN  cron' = IF ~countFails(out)
                   THEN [c EXCEPT !.pc = "sending", !.kind = "stock"]
                   ELSE IF retryLeft(c.retryCount)
                        THEN [c EXCEPT !.pc = "wait"]
                        ELSE [c EXCEPT !.pc = "sending", !.kind = "error"]

(* Lines 109-110: the timer fires, scrapeStockCount(retryCount + 1) *)
Cron_DelayElapsed ==
    /\ cron.pc = "wait"
    /\ cron' = [cron EXCEPT !.pc = "attempt", !.retryCount = @ + 1]

(* The axios.post of sendTelegramNotification settles.  The function returns
   and monitorStock ends; were it to throw, the stock message's failure
   would enter the catch of line 139 and start the error message, and the
   error message's failure would reject monitorStock *)
Cron_SendSettled(ok) ==
    /\ cron.pc = "sending"
    /\ LET c == [cron EXCEPT !.notes = Append(@, [run |-> cron.runs,
                                                   kind |-> cron.kind,
                                                   ok |-> ok])]
       IN  cron' = IF sendTelegramNotification(ok) = "returned"
                   THEN [c EXCEPT !.pc = "idle"]
                   ELSE IF cron.kind = "stock"
                        THEN [c EXCEPT !.kind = "error"]
                        ELSE [c EXCEPT !.pc = "idle", !.threw = TRUE]

------------------------------------------------------------------------------
(* Specification                                                           *)

Variants == {"threshold", "single"}

(* stock.json when the process starts for the first time, or after a run
   that stopped while writing it *)
StartFiles == {NoFile, Torn(<<>>)}

CycleInit ==
    /\ variant \in Variants
    /\ file \in StartFiles
    /\ cyc = [i \in Ids |-> IdleCycle]
    /\ started = 0
    /\ isRunning = FALSE
    /\ skipped = 0
    /\ bodies = 0
    /\ persisted = -1
    /\ written = EmptyObj
    /\ last = NoLast
    /\ feed \in IF variant = "threshold" THEN {<<>>, TargetSeq} ELSE {<<>>}
    /\ track = [on |-> feed # <<>>, alerts |-> <<>>]

Init ==
    /\ CycleInit
    /\ scr = ScrIdle
    /\ snd = SndIdle
    /\ sto = StoIdle
    /\ calc = CalcIdle
    /\ hnd = HndIdle
    /\ cron = CronIdle

Next ==
    \/ T_Trigger /\ UNCHANGED unitVars
    \/ \E i \in Ids, key \in Keys :
          T_ScrapeSettled(i, key) /\ UNCHANGED unitVars
    \/ \E i \in Ids, ok \in BOOLEAN :
          T_AlertSettled(i, ok) /\ UNCHANGED unitVars
    \/ \E i \in Ids, ok \in BOOLEAN :
          T_SummarySettled(i, ok) /\ UNCHANGED unitVars
    \/ S_Trigger /\ UNCHANGED unitVars
    \/ \E i \in Ids : S_ScrapeReturned(i) /\ UNCHANGED unitVars
    \/ \E i \in Ids : S_ScrapeExhausted(i) /\ UNCHANGED unitVars
    \/ \E i \in Ids, ok \in BOOLEAN :
          S_ScrapeAlertSettled(i, ok) /\ UNCHANGED unitVars
    \/ \E i \in Ids, ok \in BOOLEAN :
          S_SummarySettled(i, ok) /\ UNCHANGED unitVars
    \/ \E i \in Ids, ok \in BOOLEAN :
          S_CatchAlertSettled(i, ok) /\ UNCHANGED unitVars

Spec == Init /\ [][Next]_vars

(* The single-flight variant alone.  Every operation runOnce awaits settles
   (scrapeCategory returns or throws after its bounded attempts; each
   sendTelegram resolves or rejects), which is the weak fairness of the
   steps that follow an await. *)
SingleInit == Init /\ variant = "single"

SingleNext ==
    \/ S_Trigger /\ UNCHANGED unitVars
    \/ \E i \in Ids : S_ScrapeReturned(i) /\ UNCHANGED unitVars
    \/ \E i \in Ids : S_ScrapeExhausted(i) /\ UNCHANGED unitVars
    \/ \E i \in Ids, ok \in BOOLEAN :
          S_ScrapeAlertSettled(i, ok) /\ UNCHANGED unitVars
    \/ \E i \in Ids, ok \in BOOLEAN :
          S_SummarySettled(i, ok) /\ UNCHANGED unitVars
    \/ \E i \in Ids, ok \in BOOLEAN :
          S_CatchAlertSettled(i, ok) /\ UNCHANGED unitVars

AwaitSettles ==
    \E i \in Ids :
       \/ S_ScrapeReturned(i)
       \/ S_ScrapeExhausted(i)
       \/ \E ok \in BOOLEAN : S_ScrapeAlertSettled(i, ok)
       \/ \E ok \in BOOLEAN : S_SummarySettled(i, ok)
       \/ \E ok \in BOOLEAN : S_CatchAlertSettled(i, ok)

SpecSingleLive ==
    /\ SingleInit
    /\ [][SingleNext]_vars
    /\ WF_vars(AwaitSettles /\ UNCHANGED unitVars)

(* No program runs: the store and the activations stay as constructed *)
Quiet ==
    /\ variant = "unit"
    /\ file = NoFile
    /\ cyc = [i \in Ids |-> IdleCycle]
    /\ started = 0
    /\ isRunning = FALSE
    /\ skipped = 0
    /\ bodies = 0
    /\ persisted = -1
    /\ written = EmptyObj
    /\ last = NoLast
    /\ feed = <<>>
    /\ track = TrackOff

quietVars == <<variant, file, cyc, started, isRunning, skipped, bodies,
               persisted, last, feed, track, written>>

(* The cycle variables other than the file *)
idleVars == <<variant, cyc, started, isRunning, skipped, bodies, persisted,
              last, feed, track, written>>

(* scrapeCategory alone, and what runOnce stores of its result *)
ScrInit ==
    /\ Quiet
    /\ scr = ScrCalled
    /\ snd = SndIdle
    /\ sto = StoIdle
    /\ calc = CalcIdle
    /\ hnd = HndIdle
    /\ cron = CronIdle

ScrNext ==
    \/ \E out \in StepOutcomes :
          Scr_Attempt(out) /\ UNCHANGED <<quietVars, snd, sto, calc, hnd, cron>>
    \/ Scr_DelayElapsed /\ UNCHANGED <<quietVars, snd, sto, calc, hnd, cron>>
    \/ Scr_Stored /\ UNCHANGED <<idleVars, snd, sto, calc, hnd, cron>>

SpecScrape == ScrInit /\ [][ScrNext]_vars


(* The snapshot store alone, from the first start of the program *)
StoInit ==
    /\ Quiet
    /\ scr = ScrIdle
    /\ snd = SndIdle
    /\ sto = StoIdle
    /\ calc = CalcIdle
    /\ hnd = HndIdle
    /\ cron = CronIdle

StoNext ==
    \/ \E x \in StoreStates :
          Store_Save(x) /\ UNCHANGED <<idleVars, scr, snd, calc, hnd, cron>>
    \/ Store_Write /\ UNCHANGED <<idleVars, scr, snd, calc, hnd, cron>>
    \/ Store_Stop /\ UNCHANGED <<idleVars, scr, snd, calc, hnd, cron>>
    \/ \E how \in LoadVariants :
          Store_Load(how) /\ UNCHANGED <<idleVars, scr, snd, calc, hnd, cron>>

SpecStore == StoInit /\ [][StoNext]_vars

(* calculateDiff and the filter alone, each call of CalcCalls *)
CalcInit ==
    /\ Quiet
    /\ scr = ScrIdle
    /\ snd = SndIdle
    /\ sto = StoIdle
    /\ calc \in CalcCalls
    /\ hnd = HndIdle
    /\ cron = CronIdle

CalcNext ==
    \/ Calc_Diff /\ UNCHANGED <<quietVars, scr, snd, sto, hnd, cron>>
    \/ Calc_Filter /\ UNCHANGED <<quietVars, scr, snd, sto, hnd, cron>>

SpecCalc == CalcInit /\ [][CalcNext]_vars

(* sendTelegram alone, called with each message of TextLens *)
SndInit ==
    /\ Quiet
    /\ scr = ScrIdle
    /\ sto = StoIdle
    /\ calc = CalcIdle
    /\ hnd = HndIdle
    /\ cron = CronIdle
    /\ snd \in {SndCalled(TextOf(len, kind)) :
                    len \in TextLens, kind \in TextKinds}
    /\ hnd = HndIdle
    /\ cron = CronIdle

SndNext ==
    \/ \E ok \in BOOLEAN :
          Snd_PostSettled(ok) /\ UNCHANGED <<quietVars, scr, sto, calc, hnd, cron>>
    \/ Snd_PaceElapsed /\ UNCHANGED <<quietVars, scr, sto, calc, hnd, cron>>

SpecSend == SndInit /\ [][SndNext]_vars

(* The gating variant *)
GatingInit ==
    /\ variant = "gating"
    /\ file \in StartFiles
    /\ cyc = [i \in Ids |-> IdleCycle]
    /\ started = 0
    /\ isRunning = FALSE
    /\ skipped = 0
    /\ bodies = 0
    /\ persisted = -1
    /\ written = EmptyObj
    /\ last = NoLast
    /\ feed = <<>>
    /\ track = TrackOff
    /\ scr = ScrIdle
    /\ snd = SndIdle
    /\ sto = StoIdle
    /\ calc = CalcIdle
    /\ hnd = HndIdle
    /\ cron = CronIdle

GatingNext ==
    \/ G_Trigger /\ UNCHANGED unitVars
    \/ \E i \in Ids : G_ScrapeSettled(i) /\ UNCHANGED unitVars
    \/ \E i \in Ids : G_CooldownElapsed(i) /\ UNCHANGED unitVars
    \/ \E i \in Ids, ok \in BOOLEAN :
          G_NotifySettled(i, ok) /\ UNCHANGED unitVars

SpecGating == GatingInit /\ [][GatingNext]_vars

(* The handlers alone *)
HndInit ==
    /\ Quiet
    /\ scr = ScrIdle
    /\ snd = SndIdle
    /\ sto = StoIdle
    /\ calc = CalcIdle
    /\ hnd = HndIdle
    /\ cron = CronIdle

HndNext ==
    \/ \E h \in Handlers, error \in Errs :
          Hnd_Event(h, error)
             /\ UNCHANGED <<quietVars, scr, snd, sto, calc, cron>>
    \/ \E ok \in BOOLEAN :
          Hnd_SendSettled(ok)
             /\ UNCHANGED <<quietVars, scr, snd, sto, calc, cron>>

SpecHandlers == HndInit /\ [][HndNext]_vars

(* The cron variant alone *)
CronInit == HndInit

CronNext ==
    \/ Cron_Fire /\ UNCHANGED <<quietVars, scr, snd, sto, calc, hnd>>
    \/ \E out \in CronOutcomes :
          Cron_Attempt(out) /\ UNCHANGED <<quietVars, scr, snd, sto, calc, hnd>>
    \/ Cron_DelayElapsed /\ UNCHANGED <<quietVars, scr, snd, sto, calc, hnd>>
    \/ \E ok \in BOOLEAN :
          Cron_SendSettled(ok)
             /\ UNCHANGED <<quietVars, scr, snd, sto, calc, hnd>>

SpecCron == CronInit /\ [][CronNext]_vars

------------------------------------------------------------------------------
(* Properties                                                              *)

Sent(sent, kind) == \E j \in 1..Len(sent) : sent[j] = <<kind, TRUE>>

(* C1: in the threshold variant, a cycle that found a persisted MEN_FILTERED
   count dispatches the BIG STOCK ALERT if and only if that count is below
   filteredThreshold and the count it scraped is at or above it; over the
   counts 10, 20, 35, 40, 25, 32 of successive successful cycles the alert is
   sent in the third and the sixth cycle only. *)
C1_RisingEdge ==
    /\ \A i \in Ids :
          (variant = "threshold" /\ cyc[i].prev >= 0) =>
             /\ cyc[i].pc = "alert" =>
                   /\ cyc[i].prev < filteredThreshold
                   /\ cyc[i].res["MEN_FILTERED"] >= filteredThreshold
             /\ cyc[i].pc = "summary" =>
                   (Sent(cyc[i].sent, "alert") <=>
                       /\ cyc[i].prev < filteredThreshold
                       /\ cyc[i].res["MEN_FILTERED"] >= filteredThreshold)
    /\ track.on =>
          \A j \in 1..Len(track.alerts) : track.alerts[j] <=> j \in {3, 6}

(* C1 witness: the six cycles of the worked example have completed, with the
   alert sent on 20 -> 35 and on 25 -> 32 *)
C1_Witness ==
    /\ track.on
    /\ track.alerts = <<FALSE, FALSE, TRUE, FALSE, FALSE, TRUE>>

(* C2: a cycle of the threshold variant that loaded no MEN_FILTERED entry
   (cold start) dispatches no BIG STOCK ALERT. *)
C2_NoColdStartAlert ==
    \A i \in Ids :
       (/\ variant = "threshold"
        /\ Active(cyc[i])
        /\ "MEN_FILTERED" \notin DOMAIN cyc[i].snapshot) =>
          /\ cyc[i].pc # "alert"
          /\ ~\E j \in 1..Len(cyc[i].sent) : cyc[i].sent[j][1] = "alert"

C3_Step ==
    /\ (variant = "single" /\ isRunning /\ started' # started) =>
          /\ cyc' = cyc
          /\ file' = file
          /\ bodies' = bodies
          /\ skipped' = skipped + 1
    /\ (variant = "single" /\ bodies' # bodies) =>
          /\ ~isRunning
          /\ started' = started + 1
          /\ InFlight = {}

(* C3: in the single-flight variant at most one runOnce body is in progress
   at any time; a trigger that fires while isRunning is true changes neither
   the store nor any activation and starts no body, and a body starts only
   in the step of a trigger that found isRunning false. *)
C3_SingleFlight ==
    /\ [](variant = "single" =>
             /\ Cardinality(InFlight) <= 1
             /\ bodies + skipped = started)
    /\ [][C3_Step]_vars

(* C3 witness: a trigger was dropped while a cycle body is in progress *)
C3_Witness ==
    /\ variant = "single"
    /\ isRunning
    /\ skipped >= 1
    /\ InFlight # {}

(* C4: in the threshold variant no cycle loads the snapshot while another
   cycle is between its loadSnapshot and its saveSnapshot. *)
C4_NoOverlap ==
    variant = "threshold" =>
       Cardinality({i \in Ids : Active(cyc[i]) /\ ~cyc[i].saved}) <= 1

(* C5: a cycle in which one category exhausted its retries and another was
   acquired has saved the snapshot and sent the summary. *)
C5_IsolatedFailure ==
    \A a \in Keys, b \in Keys :
       (last.res[a] = Rejected /\ Got(last.res[b])) =>
          /\ last.saved
          /\ Sent(last.sent, "summary")

AllFailed(outs) == \A n \in 1..Len(outs) : AttemptFails(outs[n])

(* C6: one scrapeCategory call makes at most maxRetries + 1 attempts with a
   retryDelay wait between consecutive attempts; it returns the snapshot of
   the first attempt that succeeds, and when all maxRetries + 1 attempts
   failed it throws the error of the last one and makes no further attempt. *)
C6_Retry ==
    LET n == Len(scr.outs)
    IN  /\ n <= maxRetries + 1
        /\ \A j \in 1..Len(scr.ev) :
              scr.ev[j] = (IF j % 2 = 1 THEN "attempt" ELSE "wait")
        /\ scr.pc = "returned" =>
              /\ n >= 1
              /\ ~AttemptFails(scr.outs[n])
              /\ AllFailed(SubSeq(scr.outs, 1, n - 1))
              /\ scr.result = scr.outs[n]
              /\ scr.thrown.attempt = 0
        /\ scr.pc = "threw" =>
              /\ n = maxRetries + 1
              /\ AllFailed(scr.outs)
              /\ scr.thrown = [attempt |-> n, kind |-> scr.outs[n]]
        /\ scr.pc \in {"returned", "threw"} =>
              ~ENABLED (Scr_DelayElapsed \/ \E out \in StepOutcomes :
                                               Scr_Attempt(out))
        /\ scr.pc \in {"attempt", "wait"} => AllFailed(scr.outs)

(* C6 witness: fail, fail, succeed *)
C6_Witness ==
    /\ scr.pc = "returned"
    /\ Len(scr.outs) = maxRetries + 1
    /\ scr.ev = <<"attempt", "wait", "attempt", "wait", "attempt">>

(* C7: the stored mapping is either absent or holds an entry for every
   category, all written by one and the same cycle; a cycle in which a
   category exhausted its retries has not written the store. *)
C7_WholeStore ==
    /\ LET m == loadSnapshot(file)
       IN  \/ DOMAIN m = {}
           \/ /\ DOMAIN m = Keys
              /\ \E i \in Ids : \A k \in Keys : m[k].by = i
    /\ \A i \in Ids : cyc[i].saved => \A k \in Keys : Got(cyc[i].res[k])
    /\ last.saved => \A k \in Keys : Got(last.res[k])

(* C7 witness: a cycle failed on a category after an earlier cycle had
   written the store *)
C7_Witness ==
    /\ file.exists
    /\ \E k \in Keys : last.res[k] = Rejected
    /\ ~last.saved

RECURSIVE Concat(_)
Concat(seqs) == IF seqs = <<>> THEN <<>> ELSE Head(seqs) \o Concat(Tail(seqs))

(* C8: a message of length L >= 1 is split into ceil(L / 3800) chunks, each
   non-empty and at most 3800 long, all but the last exactly 3800 long,
   whose concatenation is the message; a call whose posts all succeed posts
   exactly these chunks (9000 gives 3800, 3800, 1400). *)
C8_Chunking ==
    LET L == Len(snd.text)
        n == Len(snd.chunks)
    IN  (snd.pc # "off" /\ L >= 1) =>
           /\ n = (L + MAX_LEN - 1) \div MAX_LEN
           /\ \A k \in 1..n : /\ Len(snd.chunks[k]) >= 1
                              /\ Len(snd.chunks[k]) <= MAX_LEN
           /\ \A k \in 1..(n - 1) : Len(snd.chunks[k]) = MAX_LEN
           /\ Concat(snd.chunks) = snd.text
           /\ snd.pc = "done" => snd.posted = snd.chunks
           /\ L = 9000 =>
                 [k \in 1..n |-> Len(snd.chunks[k])] = <<3800, 3800, 1400>>

(* C8 witness: the message of length 9000 has been sent in three posts *)
C8_Witness ==
    /\ snd.pc = "done"
    /\ Len(snd.text) = 9000
    /\ Len(snd.posted) = 3

(* C9: the chunks are posted in order and one at a time: the post of chunk
   k + 1 starts only after the post of chunk k succeeded and the pacing
   timer then fired. *)
C9_InOrder ==
    /\ Cardinality(snd.inflight) <= 1
    /\ snd.posted = SubSeq(snd.chunks, 1, Len(snd.posted))
    /\ \A j \in 1..Len(snd.ev) :
          snd.ev[j][1] = "post" =>
             IF snd.ev[j][2] = 1 THEN j = 1
             ELSE /\ j >= 3
                  /\ snd.ev[j - 2] = <<"ok", snd.ev[j][2] - 1>>
                  /\ snd.ev[j - 1] = <<"pace", snd.ev[j][2] - 1>>

(* C9 witness: the post of a second chunk is in flight *)
C9_Witness ==
    /\ snd.pc = "posting"
    /\ snd.i = 2
    /\ snd.inflight = {2}

(* C10: when the post of chunk k fails, sendTelegram throws: no later chunk
   is posted and the call ends with the failure. *)
C10_AbortOnFailure ==
    /\ \A j \in 1..Len(snd.ev) :
          snd.ev[j][1] = "fail" =>
             /\ j = Len(snd.ev)
             /\ snd.pc = "threw"
             /\ snd.failedAt = snd.ev[j][2]
    /\ snd.pc = "threw" =>
          /\ snd.posted = SubSeq(snd.chunks, 1, snd.failedAt - 1)
          /\ snd.inflight = {}
          /\ ~ENABLED (Snd_PaceElapsed \/ \E ok \in BOOLEAN :
                                             Snd_PostSettled(ok))

(* C10 witness: a post failed while chunks were left to send *)
C10_Witness ==
    /\ snd.pc = "threw"
    /\ snd.failedAt >= 1
    /\ snd.failedAt < Len(snd.chunks)

(* A trigger that finds no cycle body in progress starts one *)
C11_Step ==
    (variant = "single" /\ InFlight = {} /\ started' # started) =>
       /\ bodies' = bodies + 1
       /\ InFlight' # {}

(* C11: in the single-flight variant the promise of runOnce never rejects,
   whether a category exhausted its retries, the snapshot could not be read
   or written, or a send (the error alert's included) failed; once the
   cycle has ended isRunning is false and the next trigger starts a new
   cycle. *)
C11_NoEscape ==
    /\ [](variant = "single" =>
             /\ last.pc \in {"none", "done", "caught"}
             /\ InFlight = {} => ~isRunning)
    /\ [][C11_Step]_vars

(* C11 witness: a cycle could not write the snapshot and could not send the
   error alert either; it ended caught and the next trigger started a new
   cycle *)
C11_Witness ==
    /\ variant = "single"
    /\ last.pc = "caught"
    /\ \A k \in Keys : Got(last.res[k])
    /\ ~last.saved
    /\ last.sent = <<<<"error", FALSE>>>>
    /\ InFlight # {}
    /\ bodies >= 2

(* C12: in src/monitor.js a cycle in which a send failed still saves the
   snapshot and dispatches the summary, and runOnce does not reject. *)
C12_SendFailureContinues ==
    (variant = "threshold" /\ \E j \in 1..Len(last.sent) : ~last.sent[j][2])
       => /\ last.pc = "done"
          /\ last.saved
          /\ \E j \in 1..Len(last.sent) : last.sent[j][1] = "summary"

Started(ev, what) == \E j \in 1..Len(ev) : ev[j] = what

(* C13: in the single-flight variant a cycle in which a category exhausted
   its retries dispatches the BOT ERROR ALERT and dispatches no SHEIN STOCK
   UPDATE summary. *)
C13_ErrorAlertNoSummary ==
    variant = "single" =>
       /\ \A i \in Ids :
             (\E k \in Keys : cyc[i].res[k] = Rejected) =>
                /\ Started(cyc[i].ev, "error")
                /\ ~Started(cyc[i].ev, "summary")
       /\ (\E k \in Keys : last.res[k] = Rejected) =>
             /\ last.pc = "caught"
             /\ Started(last.ev, "error")
             /\ ~Started(last.ev, "summary")
             /\ \E j \in 1..Len(last.sent) : last.sent[j][1] = "error"

(* C13 witness: the second category exhausted its retries and the cycle has
   ended *)
C13_Witness ==
    /\ variant = "single"
    /\ Got(last.res[categories[1]])
    /\ last.res[categories[2]] = Rejected
    /\ last.pc = "caught"

(* C18: a cycle that loaded no entry for a category reports, for that
   category, added = the count it scraped and removed = 0. *)
C18_FirstCycleDiff ==
    \A i \in Ids, k \in Keys :
       (Started(cyc[i].ev, "summary") /\ k \notin DOMAIN cyc[i].snapshot) =>
          cyc[i].diff[k] = [added |-> cyc[i].res[k], removed |-> 0]

(* The place of an event in ev, 0 when it is not there *)
Place(ev, what) ==
    IF Started(ev, what) THEN CHOOSE j \in 1..Len(ev) : ev[j] = what ELSE 0

(* C20: a cycle of the threshold variant that dispatched the alert then
   dispatches the summary and only then writes the store: the store is not
   written before the summary has been dispatched. *)
C20_AlertSummaryPersist ==
    \A i \in Ids :
       (variant = "threshold" /\ Started(cyc[i].ev, "alert")) =>
          /\ Started(cyc[i].ev, "summary") =>
                Place(cyc[i].ev, "alert") < Place(cyc[i].ev, "summary")
          /\ Started(cyc[i].ev, "save") =>
                /\ Started(cyc[i].ev, "summary")
                /\ Place(cyc[i].ev, "summary") < Place(cyc[i].ev, "save")

(* C14: when the process stopped during saveSnapshot, the next loadSnapshot
   (that of src/monitor.js) returns the complete mapping of the last save that returned or the
   complete mapping that was being saved. *)
C14_AtomicSave ==
    (sto.pc = "loaded" /\ sto.how = "guarded" /\ sto.stopped) =>
       /\ ~sto.raised
       /\ sto.loaded = sto.good \/ sto.loaded = sto.x

(* C15: every loadSnapshot returns without raising, and returns {} when
   stock.json is missing or holds a text JSON.parse rejects. *)
C15_LoadNeverRaises ==
    sto.pc = "loaded" =>
       /\ ~sto.raised
       /\ (~file.exists \/ ~Parseable(file.content)) => DOMAIN sto.loaded = {}

(* C16: loadSnapshot after a saveSnapshot(x) that returned gives x, for
   every well-formed mapping x from category key to totalItems, links and
   time, {} included. *)
C16_RoundTrip ==
    (sto.pc = "loaded" /\ sto.saves >= 1 /\ ~sto.stopped) =>
       /\ ~sto.raised
       /\ sto.loaded = sto.x

(* C16 witness: a mapping with both keys, one of them with two links, has
   been saved and loaded *)
C16_Witness ==
    /\ sto.pc = "loaded"
    /\ ~sto.stopped
    /\ DOMAIN sto.x = Keys
    /\ sto.x[categories[1]].totalItems = 120
    /\ Len(sto.x[categories[2]].links) = 2
    /\ sto.loaded = sto.x

(* C17: for non-negative oldCount and newCount, calculateDiff returns
   added >= 0 and removed >= 0 with added - removed = newCount - oldCount,
   so at most one of the two is non-zero. *)
C17_Diff ==
    (calc.pc = "diff" /\ calc.done) =>
       /\ calc.diff.added >= 0
       /\ calc.diff.removed >= 0
       /\ calc.diff.added - calc.diff.removed = calc.newCount - calc.oldCount
       /\ calc.diff.added = 0 \/ calc.diff.removed = 0

(* C17 witness: calculateDiff(5, 2) has returned, three items removed *)
C17_Witness ==
    /\ calc.pc = "diff"
    /\ calc.done
    /\ calc.oldCount = 5
    /\ calc.newCount = 2
    /\ calc.diff.removed = 3

(* a is b with some of its elements left out *)
RECURSIVE IsSubseq(_, _)
IsSubseq(a, b) ==
    IF a = <<>> THEN TRUE
    ELSE IF b = <<>> THEN FALSE
    ELSE IF Head(a) = Head(b) THEN IsSubseq(Tail(a), Tail(b))
    ELSE IsSubseq(a, Tail(b))

(* The orders in which the elements of arr can be arranged *)
Reorderings(arr) ==
    {[j \in 1..Len(arr) |-> arr[p[j]]] :
        p \in {q \in [1..Len(arr) -> 1..Len(arr)] :
                  \A a, b \in 1..Len(arr) : a # b => q[a] # q[b]}}

(* C19: newlyAddedFilteredLinks holds only elements of current.links and
   none of previous.links, in the order they have in current.links, and is
   the same however previous.links is ordered. *)
C19_NewLinks ==
    (calc.pc = "links" /\ calc.done) =>
       /\ \A j \in 1..Len(calc.out) :
             /\ includes(calc.current, calc.out[j])
             /\ \A n \in 1..Len(calc.previous) :
                   calc.previous[n] # calc.out[j]
       /\ IsSubseq(calc.out, calc.current)
       /\ \A p \in Reorderings(calc.previous) :
             newlyAddedFilteredLinks(calc.current, p) = calc.out

(* C19 witness: of three current links the one in the middle was stored
   before; the other two come out in their order *)
C19_Witness ==
    /\ calc.pc = "links"
    /\ calc.done
    /\ calc.current = <<"/p/3", "/p/1", "/p/2">>
    /\ calc.previous = <<"/p/2", "/p/1", "/p/1">>
    /\ calc.out = <<"/p/3">>

(* Two mappings with the same entries *)
SameMapping(a, b) ==
    /\ DOMAIN a = DOMAIN b
    /\ \A k \in DOMAIN a : a[k] = b[k]

(* C21: in the single-flight variant the snapshot an activation diffs
   against is the mapping written by the most recent earlier activation whose
   saveSnapshot wrote the file, or the empty mapping when there is none. *)
C21_PriorState ==
    \A i \in Ids :
       (variant = "single" /\ Active(cyc[i]) /\ ~cyc[i].saved) =>
          SameMapping(cyc[i].snapshot, written)

(* C22: in the gating variant a cycle whose acquisitions succeeded starts
   the notification exactly when its MEN_ALL count is at or above
   notifyThreshold, whatever the previous count was; when the gate suppresses
   the notification the cycle goes on to saveSnapshot with its new
   snapshot. *)
C22_AbsoluteGate ==
    [][\A i \in Ids :
          (/\ variant = "gating"
           /\ cyc[i].pc = "cooldown"
           /\ G_LoopDone(cyc[i].k)
           /\ cyc'[i] # cyc[i]) =>
             LET total == cyc[i].res["MEN_ALL"]
             IN  /\ (cyc'[i].pc = "notify") <=> (total >= notifyThreshold)
                 /\ (cyc'[i].pc = "notify") =>
                       cyc'[i].ev = Append(cyc[i].ev, "notify")
                 /\ total < notifyThreshold =>
                       /\ last'.id = i
                       /\ ~Started(last'.ev, "notify")
                       /\ \E w \in SaveOutcomes(file, cyc[i].newSnapshot) :
                             /\ file' = w.file
                             /\ last'.saved = w.ok]_vars

(* C22 witness: a cycle that loaded a MEN_ALL count at the floor finds the
   count still at the floor and notifies again; meanwhile a cycle below the
   floor has stored its snapshot without notifying *)
C22_Witness ==
    \E i \in Ids :
       /\ variant = "gating"
       /\ cyc[i].pc = "notify"
       /\ "MEN_ALL" \in DOMAIN cyc[i].snapshot
       /\ cyc[i].snapshot["MEN_ALL"].totalItems = notifyThreshold
       /\ cyc[i].res["MEN_ALL"] = notifyThreshold
       /\ last.pc = "done"
       /\ last.saved
       /\ ~Started(last.ev, "notify")

(* C23: a scrapeCategory with retry treats an observed count of 0 as a
   failed attempt, which is retried or, after the last one, thrown; it never
   returns totalItems = 0, and every entry written to the store from what it
   returned has totalItems >= 1. *)
C23_ZeroIsFailure ==
    /\ \A j \in 1..Len(scr.outs) :
          scr.outs[j] = 0 =>
             IF j <= maxRetries
             THEN \/ scr.pc = "wait" /\ j = Len(scr.outs)
                  \/ Len(scr.ev) >= 2 * j /\ scr.ev[2 * j] = "wait"
             ELSE scr.pc = "threw"
    /\ scr.pc \in {"returned", "stored"} => scr.result >= 1
    /\ \A k \in DOMAIN loadSnapshot(file) :
          loadSnapshot(file)[k].totalItems >= 1

(* C23 witness: the page showed no count twice and then 20; the entry
   stored holds 20 *)
C23_Witness ==
    /\ scr.pc = "stored"
    /\ scr.outs = <<0, 0, 20>>
    /\ DOMAIN loadSnapshot(file) = {categories[1]}
    /\ loadSnapshot(file)[categories[1]].totalItems = 20

(* C24: in the single-flight variant a cycle that set isRunning sets it
   back to false once what it awaits has settled, on every path, the failed
   error alert included; so isRunning does not stay true and the triggers
   that come later are not skipped for ever. *)
C24_FlagReleased ==
    /\ (variant = "single" /\ isRunning) ~> ~isRunning
    /\ []((variant = "single" /\ InFlight = {}) => ~isRunning)

(* C24 witness: a cycle failed, its error alert failed too, and isRunning is
   false again *)
C24_Witness ==
    /\ variant = "single"
    /\ last.pc = "caught"
    /\ \E j \in 1..Len(last.sent) : last.sent[j] = <<"error", FALSE>>
    /\ \A j \in 1..Len(last.sent) : ~last.sent[j][2]
    /\ ~isRunning
    /\ bodies >= 2

(* How many times an activation started the send of kind what *)
Count(ev, what) == Cardinality({j \in 1..Len(ev) : ev[j] = what})

(* C25: in the single-flight variant a cycle in which a category exhausted
   its retries dispatches the error alert exactly once. *)
C25_OneErrorAlert ==
    (variant = "single" /\ \E k \in Keys : last.res[k] = Rejected) =>
       Count(last.ev, "error") = 1

(* The alert send of an activation failed *)
AlertFailed(sent) == \E j \in 1..Len(sent) : sent[j] = <<"alert", FALSE>>

(* C26: in the threshold variant a cycle whose alert send failed has not
   saved the snapshot; the cycle that runs next, after it has ended, loads a
   previous MEN_FILTERED count below filteredThreshold and, when it scrapes a
   count at or above filteredThreshold, dispatches the alert again. *)
C26_CrossingNotLost ==
    (variant = "threshold" /\ AlertFailed(last.sent)) =>
       /\ last.pc = "rejected"
       /\ ~last.saved
       /\ \A i \in Ids :
             (Active(cyc[i]) /\ cyc[i].shown > 0) =>
                /\ previousFiltered(cyc[i].snapshot) < filteredThreshold
                /\ (/\ cyc[i].pc # "scrape"
                    /\ cyc[i].res["MEN_FILTERED"] >= filteredThreshold) =>
                      Started(cyc[i].ev, "alert")

(* C26 witness: the alert for the crossing 20 -> 35 failed; the next cycle
   scraped 40 and its alert is being sent *)
C26_Witness ==
    /\ variant = "threshold"
    /\ AlertFailed(last.sent)
    /\ \E i \in Ids :
          /\ cyc[i].shown = 40
          /\ cyc[i].res["MEN_FILTERED"] = 40
          /\ cyc[i].pc = "alert"
          /\ previousFiltered(cyc[i].snapshot) = 20

(* C27: sendErrorAlert returns normally whether its sendTelegram resolved or
   rejected, so a process.on handler that awaits it never rejects: no handler
   raises a new unhandled rejection, and every event is answered by exactly
   one alert attempt. *)
C27_NoHandlerLoop ==
    /\ hnd.raised = 0
    /\ \A j \in 1..Len(hnd.log) : hnd.log[j].body # "send failed"
    /\ Len(hnd.log) = hnd.events - (IF hnd.pc = "sending" THEN 1 ELSE 0)

(* C27 witness: the alert of an unhandledRejection failed to send, the
   handler has ended and the next event is being handled *)
C27_Witness ==
    /\ hnd.pc = "sending"
    /\ hnd.events = 2
    /\ hnd.log = <<[on |-> "unhandledRejection", body |-> "boom",
                    ok |-> FALSE]>>
    /\ hnd.raised = 0

(* C28: in the cron variant monitorStock never throws; each run attempts
   exactly one notification, the stock message when an attempt among at most
   maxRetries + 1 observed a count and the error message when all
   maxRetries + 1 failed, and the run ends normally whether that send
   succeeded or not. *)
C28_OneNotification ==
    /\ ~cron.threw
    /\ Len(cron.outs) <= maxRetries + 1
    /\ Len(cron.notes) = cron.runs - (IF cron.pc = "idle" THEN 0 ELSE 1)
    /\ \A j \in 1..Len(cron.notes) : cron.notes[j].run = j
    /\ cron.pc = "sending" =>
          LET n == Len(cron.outs)
          IN  /\ n >= 1
              /\ cron.kind = (IF countFails(cron.outs[n]) THEN "error"
                              ELSE "stock")
              /\ cron.kind = "error" =>
                    /\ n = maxRetries + 1
                    /\ \A m \in 1..n : countFails(cron.outs[m])
    /\ (cron.pc = "idle" /\ cron.runs > 0) =>
          /\ cron.notes[cron.runs].kind = cron.kind
          /\ cron.kind \in {"stock", "error"}

(* C28 witness: the first run got its count at the third attempt and its
   stock message failed to send; the second run exhausted its attempts, its
   error message failed too, and it has ended *)
C28_Witness ==
    /\ cron.pc = "idle"
    /\ cron.runs = 2
    /\ cron.notes = <<[run |-> 1, kind |-> "stock", ok |-> FALSE],
                      [run |-> 2, kind |-> "error", ok |-> FALSE]>>
    /\ cron.outs = <<0, -1, 0>>
    /\ ~cron.threw

====
